---- MODULE Spec2Model ----
(***************************************************************************)
(* Model of the standup bot: the signed-webhook Lambda handler             *)
(* (server/lambda_function.py), the slash-command and interactive flows    *)
(* (server/core_slack.py), the DynamoDB helpers (server/db.py) and the     *)
(* digest formatter (build/summary_lambda.py).                             *)
(*                                                                         *)
(* Strings the code only compares or passes on are TLA+ strings.  A value  *)
(* that Python may hold as None / missing key is the string Absent.        *)
(* Header values are records, so that "decimal text of n", "padded decimal *)
(* text of n" and "non-numeric text" are different strings that int()      *)
(* treats differently.  HMAC-SHA256 is an ideal keyed hash: the digest of  *)
(* (key, timestamp text, body) is the record of the three.                 *)
(***************************************************************************)
EXTENDS Integers, Sequences, FiniteSets, TLC

\* ---------------------------------------------------------------- bounds
\* Highest value of the wall clock, in half seconds.
MaxClock == 2
\* Highest number of put_item calls in one run.
MaxWrites == 2
\* Highest number of items handed to the digest formatter.
MaxItems == 3

\* --------------------------------------------------------------- values
Absent == "<absent>"

\* The Lambda invocations that can be in flight.
Procs == {"inv1", "inv2"}

Users == {"U1", "U2"}

Messages == {"a", "b"}

\* The configured signing secret, and some other key.
SLACK_SIGNING_SECRET == "secret"

OtherSecret == "other"

\* text field values as they arrive: missing, blank, whitespace only,
\* plain, and padded with whitespace.
TextVals == {Absent, "", "  ", "a", " b "}

\* str.strip() on the text values above.
Strip(s) ==
    CASE s = "  " -> ""
      [] s = " b " -> "b"
      [] OTHER -> s

VARIABLES
    clock,    \* wall clock in half seconds (time.time() is fractional)
    table,    \* the DynamoDB table: a set of items, one per (user_id, ts)
    hist,     \* the put_item calls made so far, oldest first
    pc,       \* per invocation: "idle", "save", "query", "done"
    req,      \* per invocation: the event being handled
    loc,      \* per invocation: the handler's locals
    obs,      \* per invocation: what the request did (calls, parse, chat)
    resp,     \* per invocation: the response, or the exception raised
    vin,      \* input of the verifier run (SpecVerify)
    vout,     \* verdict of the verifier run
    din,      \* input of the digest run (SpecDigest)
    dout,     \* sections rendered by the digest run
    dres      \* what the digest handler did and returned (SpecSummary)

vars == <<clock, table, hist, pc, req, loc, obs, resp, vin, vout, din, dout, dres>>

\* ------------------------------------------------- request verification
\* Header names as API Gateway may deliver them.
TsName == "X-Slack-Request-Timestamp"

SigName == "X-Slack-Signature"

\* str.lower() on the two header names.
Lower(name) ==
    CASE name = TsName -> "x-slack-request-timestamp"
      [] name = SigName -> "x-slack-signature"
      [] OTHER -> name

HeaderNames == {TsName, Lower(TsName), SigName, Lower(SigName)}

\* Header values.  kind "none" is a missing key (dict.get gives None),
\* "empty" the empty string; both are falsy in Python.
NoneVal == [kind |-> "none"]

EmptyStr == [kind |-> "empty"]

\* The decimal text of n, e.g. "1700000000".
IntText(n) == [kind |-> "int", n |-> n]

\* The decimal text of n with surrounding blanks, e.g. " 1700000000".
PadText(n) == [kind |-> "padint", n |-> n]

\* A text that is no number, e.g. "yesterday".
WordText == [kind |-> "word"]

\* A signature text that holds a non-ASCII character.
NonAsciiText == [kind |-> "nonascii"]

\* "v0=" + hex(HMAC-SHA256(key, "v0:" + ts + ":" + body)), ideal hash.
Mac(key, ts, body) == [kind |-> "mac", key |-> key, ts |-> ts, body |-> body]

Truthy(v) == v.kind \notin {"none", "empty"}

\* The window of the replay check, in seconds.
ReplayWindow == 300

Abs(x) == IF x < 0 THEN -x ELSE x

\* _hdr: the header under its given name, else under the lowercased name,
\* else "".
Hdr(headers, name) ==
    LET a == headers[name]
        b == headers[Lower(name)]
    IN  IF Truthy(a) THEN a
        ELSE IF Truthy(b) THEN b
        ELSE EmptyStr

\* The replay check without abs(): only old timestamps are stale.
VerifyOneSided(headers, raw_body, now) ==
    LET timestamp == Hdr(headers, TsName)
        sig_from_slack == Hdr(headers, SigName)
    IN  IF ~Truthy(timestamp) \/ ~Truthy(sig_from_slack) THEN FALSE
        ELSE IF timestamp.kind \notin {"int", "padint"} THEN FALSE
        ELSE IF now - 2 * timestamp.n > 2 * ReplayWindow THEN FALSE
        ELSE IF sig_from_slack.kind = "nonascii" THEN FALSE
        ELSE Mac(SLACK_SIGNING_SECRET, timestamp, raw_body) = sig_from_slack

\* _verify_slack_signature at wall-clock time now (half seconds).
\* int() raises ValueError on a non-number; compare_digest raises TypeError
\* on a non-ASCII str; both are caught and give False.
VerifySlackSignature(headers, raw_body, now) ==
    LET timestamp == Hdr(headers, TsName)
        sig_from_slack == Hdr(headers, SigName)
    IN  IF ~Truthy(timestamp) \/ ~Truthy(sig_from_slack) THEN FALSE
        ELSE IF timestamp.kind \notin {"int", "padint"} THEN FALSE
        ELSE IF Abs(now - 2 * timestamp.n) > 2 * ReplayWindow THEN FALSE
        ELSE IF sig_from_slack.kind = "nonascii" THEN FALSE
        ELSE Mac(SLACK_SIGNING_SECRET, timestamp, raw_body) = sig_from_slack

\* ------------------------------------------------------------ the store
\* _now_iso: the clock cut to whole seconds.  The "%Y-%m-%dT%H:%M:%SZ" text
\* is fixed-width, so the store's string order on ts is the order of the
\* seconds; ts is kept as the number of seconds.
NowIso(now) == now \div 2

\* The item save_standup builds: user_name is left out when falsy.
StandupItem(user_id, message, user_name, ts) ==
    [user_id |-> user_id, ts |-> ts, message |-> message,
     user_name |-> IF user_name \in {Absent, ""} THEN Absent ELSE user_name]

\* Table.put_item: an unconditional write; an item with the same
\* (user_id, ts) key is replaced.
PutItem(tbl, item) ==
    {it \in tbl : ~(it.user_id = item.user_id /\ it.ts = item.ts)} \cup {item}

\* The items of S as a sequence, newest ts first (ScanIndexForward=False).
RECURSIVE NewestFirst(_)
NewestFirst(S) ==
    IF S = {} THEN <<>>
    ELSE LET top == CHOOSE it \in S : \A o \in S : o.ts <= it.ts
         IN  <<top>> \o NewestFirst(S \ {top})

\* The first n elements of a sequence (Limit=n).
Take(q, n) == SubSeq(q, 1, IF Len(q) < n THEN Len(q) ELSE n)

\* get_latest_n: the newest n items of one user, newest first.
GetLatestN(tbl, user_id, n) ==
    Take(NewestFirst({it \in tbl : it.user_id = user_id}), n)

\* ------------------------------------------------------ request bodies
\* The payload field of a form: its JSON text, described by what
\* json.loads makes of it.  json is "absent" (no field), "blank" (empty
\* value), "malformed" (not JSON), "array" (JSON, but no object) or
\* "object"; for an object, type is its "type" member, user_id Absent means
\* the "user" member is missing.
Payload(json, type, user_id, user_name, value) ==
    [json |-> json, type |-> type, user_id |-> user_id,
     user_name |-> user_name, value |-> value]

PayAbsent == Payload("absent", Absent, Absent, Absent, Absent)

PayBlank == Payload("blank", Absent, Absent, Absent, Absent)

PayMalformed == Payload("malformed", Absent, Absent, Absent, Absent)

PayArray == Payload("array", Absent, Absent, Absent, Absent)

PayNoType == Payload("object", Absent, Absent, Absent, Absent)

PayOtherType == Payload("object", "block_actions", "U1", "ann", Absent)

PaySubmitNoUser == Payload("object", "view_submission", Absent, Absent, "a")

PaySubmissions ==
    {Payload("object", "view_submission", u, "ann", v) :
        u \in Users, v \in Messages}
    \cup {Payload("object", "view_submission", "U1", "", "a")}

\* A form-encoded body, by its fields.
Body(command, text, user_id, user_name, payload) ==
    [command |-> command, text |-> text, user_id |-> user_id,
     user_name |-> user_name, payload |-> payload]

EmptyBody == Body(Absent, Absent, Absent, Absent, PayAbsent)

\* Slash-command bodies: every text value for two users, and a missing or
\* blank user_name.
SlashBodies ==
    {Body("/standup", t, u, "ann", PayAbsent) : t \in TextVals, u \in Users}
    \cup {Body("/standup", "a", "U1", n, PayAbsent) : n \in {Absent, ""}}

\* Interactive bodies: every payload value.
InteractiveBodies ==
    {Body(Absent, Absent, Absent, Absent, pl) :
        pl \in {PayBlank, PayMalformed, PayArray, PayNoType, PayOtherType,
                PaySubmitNoUser} \cup PaySubmissions}

\* Bodies that carry each combination of the command and payload fields.
MixedBodies ==
    {Body(c, "a", "U1", "ann", pl) :
        c \in {Absent, "", "/standup"},
        pl \in {PayAbsent, PayBlank, PayOtherType,
                Payload("object", "view_submission", "U2", "ann", "b")}}

Bodies == {EmptyBody} \cup SlashBodies \cup InteractiveBodies \cup MixedBodies

\* The body as API Gateway delivers it: the text itself, or its base64
\* encoding.
Plain(content) == [enc |-> "plain", of |-> content]

B64(content) == [enc |-> "b64", of |-> content]

\* base64.b64decode(body).decode("utf-8") on an encoded body.
B64Decode(b) == Plain(b.of)

\* Step 1 of handler: the exact raw body.
RawBody(event) ==
    IF event.isBase64Encoded THEN B64Decode(event.body) ELSE event.body

\* Step 3 of handler: parse_qs and the first value of each field.  parse_qs
\* drops fields with a blank value; base64 text holds no key=value pair
\* with a value, so it parses to the empty form.
ParseQs(raw) ==
    IF raw.enc = "plain"
    THEN LET b == raw.of
             F(v) == IF v = "" THEN Absent ELSE v
         IN  Body(F(b.command), F(b.text), F(b.user_id), F(b.user_name),
                  IF b.payload.json = "blank" THEN PayAbsent ELSE b.payload)
    ELSE EmptyBody

\* The URL paths tried.
Paths == {"/standup", "/prod/standup", "/interactive", "/", "/standup/x"}

\* str.endswith on those paths.
EndsWith(path, suffix) ==
    CASE suffix = "/standup" -> path \in {"/standup", "/prod/standup"}
      [] suffix = "/interactive" -> path = "/interactive"
      [] OTHER -> FALSE

\* event.get("rawPath") or event.get("path") or "/"
RawPath(event) ==
    IF event.rawPath \notin {Absent, ""} THEN event.rawPath
    ELSE IF event.path \notin {Absent, ""} THEN event.path
    ELSE "/"

\* Routing that looks at the form before the path.
RouteContentFirst(raw_path, form) ==
    IF form.command # Absent THEN "standup"
    ELSE IF form.payload.json # "absent" THEN "interactive"
    ELSE IF EndsWith(raw_path, "/standup") THEN "standup"
    ELSE IF EndsWith(raw_path, "/interactive") THEN "interactive"
    ELSE "none"

\* Routing without the final "not found": what matches nothing is taken
\* for an interactive event.
RouteNoNotFound(raw_path, form) ==
    IF EndsWith(raw_path, "/standup") THEN "standup"
    ELSE IF EndsWith(raw_path, "/interactive") THEN "interactive"
    ELSE IF form.command # Absent THEN "standup"
    ELSE "interactive"

\* Step 4 of handler: the flow a verified request is sent to.
Route(raw_path, form) ==
    IF EndsWith(raw_path, "/standup") THEN "standup"
    ELSE IF EndsWith(raw_path, "/interactive") THEN "interactive"
    ELSE IF form.command # Absent THEN "standup"
    ELSE IF form.payload.json # "absent" THEN "interactive"
    ELSE "none"

\* ------------------------------------------------------------ responses
\* No previous entry.
NoPrev == [ts |-> -1, message |-> Absent]

\* What an invocation gives back: the API Gateway response (status, whether
\* the headers carry Content-Type: application/json, the body) or the
\* exception that left the handler (status 0).  A body is described by its
\* kind and the values put into it:
\*   "empty"          ""
\*   "bad signature"  the 401 text
\*   "not found"      the 404 text
\*   "fallback"       the ephemeral "Couldn't open the modal" text
\*   "ack"            the ephemeral "Saved your update at ts / > msg" text,
\*                    with "Previous: ts / > message" when prev is set
\*   "view"           the response_action update view, same values
Result(status, exc, json, kind, ts, msg, prev) ==
    [status |-> status, exc |-> exc, json |-> json, kind |-> kind,
     ts |-> ts, msg |-> msg, prev |-> prev]

\* _response with a plain body.
Response(status, json, kind) ==
    Result(status, "", json, kind, -1, Absent, NoPrev)

\* An exception leaving the handler.
Raised(exc) == Result(0, exc, FALSE, "none", -1, Absent, NoPrev)

NoResult == Result(0, "", FALSE, "none", -1, Absent, NoPrev)

\* What an invocation of the digest handler did and gave back: the answer
\* chat.postMessage met ("none" before the call), the number of
\* requests.post calls, and the returned statusCode with the ok and count
\* members of its body, or the exception that left the handler
\* (statusCode 0).
Report(answer, posts, statusCode, ok, count, exc) ==
    [answer |-> answer, posts |-> posts, statusCode |-> statusCode,
     ok |-> ok, count |-> count, exc |-> exc]

NoReport == Report("none", 0, 0, FALSE, 0, "")

\* The handler's locals on the save path.
Locals(flow, user_id, user_name, message, ts_saved) ==
    [flow |-> flow, user_id |-> user_id, user_name |-> user_name,
     message |-> message, ts_saved |-> ts_saved]

NoLocals == Locals("none", Absent, Absent, Absent, -1)

\* What a request did: the time.time() reading of its signature check,
\* whether the form was parsed, the core handlers called, the views.open
\* calls and their outcome, the put_item calls.
Observed(at, parsed, calls, chat, modal, puts) ==
    [at |-> at, parsed |-> parsed, calls |-> calls, chat |-> chat,
     modal |-> modal, puts |-> puts]

NoObserved == Observed(-1, FALSE, <<>>, 0, "none", 0)

NoEvent == [body |-> Plain(EmptyBody), isBase64Encoded |-> FALSE,
            headers |-> [h \in HeaderNames |-> NoneVal],
            rawPath |-> Absent, path |-> Absent]

\* ----------------------------------------------------------- core_slack
\* What requests.post to views.open can do.
ModalOutcomes == {"ok", "not_ok", "timeout", "exception"}

\* open_modal: the parsed answer, or {"ok": False} on a timeout or any
\* other exception.  Only the ok member is read by the caller.
OpenModal(outcome) == [ok |-> outcome = "ok"]

\* A step of a handler up to its first store operation: the next pc, the
\* locals, the response if the handler is finished, and the calls made.
Outcome(next, locals, result, chat, modal) ==
    [pc |-> next, loc |-> locals, resp |-> result, chat |-> chat,
     modal |-> modal]

\* handle_standup that keeps the text as typed.
HandleStandupNoStrip(form, modal) ==
    LET user_id == IF form.user_id = Absent THEN "" ELSE form.user_id
        user_name == IF form.user_name = Absent THEN "" ELSE form.user_name
        text == IF form.text = Absent THEN "" ELSE form.text
    IN  IF text = ""
        THEN IF OpenModal(modal).ok
             THEN Outcome("done", NoLocals, Response(200, FALSE, "empty"), 1, modal)
             ELSE Outcome("done", NoLocals, Response(200, TRUE, "fallback"), 1, modal)
        ELSE Outcome("save", Locals("standup", user_id, user_name, text, -1),
                     NoResult, 0, "none")

\* handle_standup that answers a failed dialog with an error status.
HandleStandupModalError(form, modal) ==
    LET user_id == IF form.user_id = Absent THEN "" ELSE form.user_id
        user_name == IF form.user_name = Absent THEN "" ELSE form.user_name
        text == Strip(IF form.text = Absent THEN "" ELSE form.text)
    IN  IF text = ""
        THEN IF OpenModal(modal).ok
             THEN Outcome("done", NoLocals, Response(200, FALSE, "empty"), 1, modal)
             ELSE Outcome("done", NoLocals, Response(500, TRUE, "fallback"), 1, modal)
        ELSE Outcome("save", Locals("standup", user_id, user_name, text, -1),
                     NoResult, 0, "none")

\* handle_standup up to save_standup: with no text after strip, one
\* views.open call and a 200 (empty when the dialog opened, the fallback
\* text otherwise); with text, on to the save.
HandleStandup(form, modal) ==
    LET user_id == IF form.user_id = Absent THEN "" ELSE form.user_id
        user_name == IF form.user_name = Absent THEN "" ELSE form.user_name
        text == Strip(IF form.text = Absent THEN "" ELSE form.text)
    IN  IF text = ""
        THEN IF OpenModal(modal).ok
             THEN Outcome("done", NoLocals, Response(200, FALSE, "empty"), 1, modal)
             ELSE Outcome("done", NoLocals, Response(200, TRUE, "fallback"), 1, modal)
        ELSE Outcome("save", Locals("standup", user_id, user_name, text, -1),
                     NoResult, 0, "none")

\* handle_interactive that saves whatever object it is given.
HandleInteractiveAnyType(form) ==
    LET payload == form.payload
    IN  IF payload.json \in {"absent", "blank"}
        THEN Outcome("done", NoLocals, Response(200, FALSE, "empty"), 0, "none")
        ELSE IF payload.json = "malformed"
        THEN Outcome("done", NoLocals, Raised("JSONDecodeError"), 0, "none")
        ELSE IF payload.json = "array"
        THEN Outcome("done", NoLocals, Raised("AttributeError"), 0, "none")
        ELSE IF payload.user_id = Absent
        THEN Outcome("done", NoLocals, Raised("KeyError"), 0, "none")
        ELSE Outcome("save",
                     Locals("interactive", payload.user_id, payload.user_name,
                            payload.value, -1),
                     NoResult, 0, "none")

\* handle_interactive up to save_standup.  json.loads is not guarded: on
\* text that is no JSON it raises JSONDecodeError; on JSON that is no
\* object, payload.get raises AttributeError; on a view_submission without
\* a "user" member, payload["user"] raises KeyError.
HandleInteractive(form) ==
    LET payload == form.payload
    IN  IF payload.json \in {"absent", "blank"}
        THEN Outcome("done", NoLocals, Response(200, FALSE, "empty"), 0, "none")
        ELSE IF payload.json = "malformed"
        THEN Outcome("done", NoLocals, Raised("JSONDecodeError"), 0, "none")
        ELSE IF payload.json = "array"
        THEN Outcome("done", NoLocals, Raised("AttributeError"), 0, "none")
        ELSE IF payload.type = "view_submission"
        THEN IF payload.user_id = Absent
             THEN Outcome("done", NoLocals, Raised("KeyError"), 0, "none")
             ELSE Outcome("save",
                          Locals("interactive", payload.user_id,
                                 payload.user_name, payload.value, -1),
                          NoResult, 0, "none")
        ELSE Outcome("done", NoLocals, Response(200, FALSE, "empty"), 0, "none")

\* ------------------------------------------------------ lambda_function
\* The handler with the signature check left out.
HandlerStartUnverified(event, now, modal) ==
    LET raw == RawBody(event)
        form == ParseQs(raw)
        route == Route(RawPath(event), form)
        o == IF route = "standup" THEN HandleStandup(form, modal)
             ELSE HandleInteractive(form)
    IN  IF route = "none"
        THEN [pc |-> "done", loc |-> NoLocals,
              resp |-> Response(404, FALSE, "not found"),
              obs |-> Observed(now, TRUE, <<>>, 0, "none", 0)]
        ELSE [pc |-> o.pc, loc |-> o.loc, resp |-> o.resp,
              obs |-> Observed(now, TRUE, <<route>>, o.chat, o.modal, 0)]

\* handler, steps 1 to 4, up to the first store operation of the flow it
\* dispatches to: 401 before anything else when the signature check
\* fails, else parse, route by path, then by content, else 404.
HandlerStart(event, now, modal) ==
    LET raw == RawBody(event)
        form == ParseQs(raw)
        route == Route(RawPath(event), form)
        o == IF route = "standup" THEN HandleStandup(form, modal)
             ELSE HandleInteractive(form)
    IN  IF ~VerifySlackSignature(event.headers, raw, now)
        THEN [pc |-> "done", loc |-> NoLocals,
              resp |-> Response(401, FALSE, "bad signature"),
              obs |-> Observed(now, FALSE, <<>>, 0, "none", 0)]
        ELSE IF route = "none"
        THEN [pc |-> "done", loc |-> NoLocals,
              resp |-> Response(404, FALSE, "not found"),
              obs |-> Observed(now, TRUE, <<>>, 0, "none", 0)]
        ELSE [pc |-> o.pc, loc |-> o.loc, resp |-> o.resp,
              obs |-> Observed(now, TRUE, <<route>>, o.chat, o.modal, 0)]

\* ---------------------------------------------------------------- events
\* The headers dict with the two Slack headers, under their given names
\* or lowercased.
Headers(ts, sig, lower) ==
    [h \in HeaderNames |->
        IF h = (IF lower THEN Lower(TsName) ELSE TsName) THEN ts
        ELSE IF h = (IF lower THEN Lower(SigName) ELSE SigName) THEN sig
        ELSE NoneVal]

Event(body, isBase64Encoded, headers, rawPath, path) ==
    [body |-> body, isBase64Encoded |-> isBase64Encoded, headers |-> headers,
     rawPath |-> rawPath, path |-> path]

\* A request Slack signed at second sec over the body it sent.
Signed(content, rawPath, sec) ==
    Event(Plain(content), FALSE,
          Headers(IntText(sec), Mac(SLACK_SIGNING_SECRET, IntText(sec), Plain(content)), FALSE),
          rawPath, Absent)

\* Requests that pass verification at second sec: each flow's bodies on its
\* own route, the mixed bodies on every path, and one request each that
\* arrives base64-encoded, with lowercased header names, under "path"
\* instead of "rawPath", and without any path.
GoodEvents(sec) ==
    {Signed(c, "/standup", sec) : c \in SlashBodies}
    \cup {Signed(c, "/interactive", sec) : c \in InteractiveBodies}
    \cup {Signed(c, rp, sec) : c \in MixedBodies \cup {EmptyBody}, rp \in Paths}
    \cup {Event(B64(c), TRUE,
                Headers(IntText(sec), Mac(SLACK_SIGNING_SECRET, IntText(sec), Plain(c)), lower),
                rp, pa) :
            c \in {Body("/standup", "  ", "U1", "ann", PayAbsent)},
            lower \in BOOLEAN,
            rp \in {Absent, "/interactive"}, pa \in {Absent, "/standup"}}

\* Requests that must not pass at second sec: a header missing or empty, a
\* timestamp that is no number, a timestamp outside the window (signed
\* correctly), a signature over another body, with another key, or
\* garbled, and a base64 body delivered without the flag.
BadEvents(sec) ==
    LET c == Body("/standup", "a", "U1", "ann", PayAbsent)
        d == Body("/standup", "b", "U1", "ann", PayAbsent)
        sub == Body(Absent, Absent, Absent, Absent,
                    Payload("object", "view_submission", "U1", "ann", "a"))
        good(ts, content) == Mac(SLACK_SIGNING_SECRET, ts, Plain(content))
        now == IntText(sec)
        old == IntText(sec - ReplayWindow - 1)
        new == IntText(sec + ReplayWindow + 1)
    IN  {Event(Plain(c), FALSE, Headers(t, s, FALSE), "/standup", Absent) :
            t \in {NoneVal, EmptyStr}, s \in {good(now, c)}}
        \cup {Event(Plain(c), FALSE, Headers(now, s, FALSE), "/standup", Absent) :
                s \in {NoneVal, EmptyStr, NonAsciiText, good(now, d),
                       Mac(OtherSecret, now, Plain(c)), good(old, c)}}
        \cup {Event(Plain(b), FALSE, Headers(t, good(t, b), FALSE), rp, Absent) :
                t \in {WordText, old, new}, b \in {c, sub},
                rp \in {"/standup", "/interactive"}}
        \cup {Event(B64(c), FALSE, Headers(now, good(now, c), FALSE), "/standup", Absent)}

Events(now) == GoodEvents(NowIso(now)) \cup BadEvents(NowIso(now))

\* --------------------------------------------------------------- actions
\* The Lambda container that serves requests one after the other.
Serial == {"inv1"}

Init ==
    /\ clock = 0
    /\ table = {}
    /\ hist = <<>>
    /\ pc = [p \in Procs |-> "idle"]
    /\ req = [p \in Procs |-> NoEvent]
    /\ loc = [p \in Procs |-> NoLocals]
    /\ obs = [p \in Procs |-> NoObserved]
    /\ resp = [p \in Procs |-> NoResult]
    /\ vin = <<>>
    /\ vout = "none"
    /\ din = <<>>
    /\ dout = <<>>
    /\ dres = NoReport

\* Invocations that still have a put_item call ahead of them.
Saving == {q \in Procs : pc[q] = "save"}

\* An event arrives at an idle invocation and handler runs up to its first
\* store operation, or to its end when the flow makes none.
Receive(p, events) ==
    /\ pc[p] = "idle"
    /\ \E event \in events, modal \in ModalOutcomes :
          LET o == HandlerStart(event, clock, modal)
          IN  /\ o.pc = "save" => Len(hist) + Cardinality(Saving) < MaxWrites
              /\ o.obs.modal = "none" => modal = "ok"
              /\ pc' = [pc EXCEPT ![p] = o.pc]
              /\ req' = [req EXCEPT ![p] = event]
              /\ loc' = [loc EXCEPT ![p] = o.loc]
              /\ obs' = [obs EXCEPT ![p] = o.obs]
              /\ resp' = [resp EXCEPT ![p] = o.resp]
    /\ UNCHANGED <<clock, table, hist, vin, vout, din, dout, dres>>

\* save_standup: one put_item of the item stamped with the current UTC
\* second; the stamp is returned as ts_saved.
SaveStandup(p) ==
    LET ts == NowIso(clock)
        item == StandupItem(loc[p].user_id, loc[p].message, loc[p].user_name, ts)
    IN  /\ pc[p] = "save"
        /\ table' = PutItem(table, item)
        /\ hist' = Append(hist, item)
        /\ loc' = [loc EXCEPT ![p].ts_saved = ts]
        /\ obs' = [obs EXCEPT ![p].puts = @ + 1]
        /\ pc' = [pc EXCEPT ![p] = "query"]
        /\ UNCHANGED <<clock, req, resp, vin, vout, din, dout, dres>>

\* The rest of handle_standup / handle_interactive: get_latest_n(user, 2),
\* prev is its second element when it has two, and the 200 response that
\* shows the saved entry and prev.
Acknowledge(p) ==
    LET latest_two == GetLatestN(table, loc[p].user_id, 2)
        prev == IF Len(latest_two) = 2
                THEN [ts |-> latest_two[2].ts, message |-> latest_two[2].message]
                ELSE NoPrev
    IN  /\ pc[p] = "query"
        /\ resp' = [resp EXCEPT ![p] =
              Result(200, "", TRUE,
                     IF loc[p].flow = "standup" THEN "ack" ELSE "view",
                     loc[p].ts_saved, loc[p].message, prev)]
        /\ pc' = [pc EXCEPT ![p] = "done"]
        /\ UNCHANGED <<clock, table, hist, req, loc, obs, vin, vout, din, dout, dres>>

\* The response goes out and the invocation is free again.
Return(p) ==
    /\ pc[p] = "done"
    /\ pc' = [pc EXCEPT ![p] = "idle"]
    /\ req' = [req EXCEPT ![p] = NoEvent]
    /\ loc' = [loc EXCEPT ![p] = NoLocals]
    /\ obs' = [obs EXCEPT ![p] = NoObserved]
    /\ resp' = [resp EXCEPT ![p] = NoResult]
    /\ UNCHANGED <<clock, table, hist, vin, vout, din, dout, dres>>

\* Half a second passes.
Tick ==
    /\ clock < MaxClock
    /\ clock' = clock + 1
    /\ UNCHANGED <<table, hist, pc, req, loc, obs, resp, vin, vout, din, dout, dres>>

\* Requests served one at a time.
Next ==
    \/ \E p \in Serial : Receive(p, Events(clock))
    \/ \E p \in Serial : SaveStandup(p)
    \/ \E p \in Serial : Acknowledge(p)
    \/ \E p \in Serial : Return(p)
    \/ Tick

Spec == Init /\ [][Next]_vars

\* ------------------------------------------------- overlapping requests
\* Verified save requests at second sec: inline text on the save-entry
\* route and dialog submissions on the interactive route, for both users.
SaveEvents(sec) ==
    {Signed(Body("/standup", t, u, "ann", PayAbsent), "/standup", sec) :
        t \in {"a", " b "}, u \in Users}
    \cup {Signed(Body(Absent, Absent, Absent, Absent,
                      Payload("object", "view_submission", u, "ann", v)),
                 "/interactive", sec) :
            u \in Users, v \in Messages}

\* Lambda runs one invocation per request in flight: the steps of two
\* requests (handler start, put_item, query and answer, return) interleave
\* freely, and the clock ticks between any two of them.
NextConc ==
    \/ \E p \in Procs : Receive(p, SaveEvents(NowIso(clock)))
    \/ \E p \in Procs : SaveStandup(p)
    \/ \E p \in Procs : Acknowledge(p)
    \/ \E p \in Procs : Return(p)
    \/ Tick

SpecConc == Init /\ [][NextConc]_vars

\* ------------------------------------------------- the verifier, alone
\* The headers dict with an empty value under the given names and the real
\* values under the lowercased names.
HeadersShadowed(ts, sig) ==
    [h \in HeaderNames |->
        IF h = Lower(TsName) THEN ts
        ELSE IF h = Lower(SigName) THEN sig
        ELSE EmptyStr]

\* Clock readings (half seconds) and timestamps (seconds) on both sides of
\* the window's two edges.
VerifyNows == {4 * ReplayWindow, 4 * ReplayWindow + 1}

VerifyStamps ==
    {2 * ReplayWindow + d :
        d \in {-ReplayWindow - 1, -ReplayWindow, 0, ReplayWindow, ReplayWindow + 1}}

VerifyBodies ==
    {Plain(Body("/standup", t, "U1", "ann", PayAbsent)) : t \in {"a", "b"}}

VerifyInputs ==
    LET stamps == {IntText(n) : n \in VerifyStamps}
                  \cup {PadText(n) : n \in VerifyStamps}
                  \cup {NoneVal, EmptyStr, WordText}
        sigs(t, b) == {NoneVal, EmptyStr, NonAsciiText,
                       Mac(SLACK_SIGNING_SECRET, t, b),
                       Mac(OtherSecret, t, b),
                       Mac(SLACK_SIGNING_SECRET, IntText(2 * ReplayWindow), b)}
                      \cup {Mac(SLACK_SIGNING_SECRET, t, o) : o \in VerifyBodies}
    IN  UNION {
          UNION {
            {[headers |-> h, body |-> b, now |-> now] :
                h \in {Headers(t, s, FALSE), Headers(t, s, TRUE),
                       HeadersShadowed(t, s)},
                now \in VerifyNows} :
            s \in sigs(t, b)} :
          t \in stamps, b \in VerifyBodies}

InitVerify ==
    /\ clock = 0
    /\ table = {}
    /\ hist = <<>>
    /\ pc = [p \in Procs |-> "idle"]
    /\ req = [p \in Procs |-> NoEvent]
    /\ loc = [p \in Procs |-> NoLocals]
    /\ obs = [p \in Procs |-> NoObserved]
    /\ resp = [p \in Procs |-> NoResult]
    /\ vin \in VerifyInputs
    /\ vout = "none"
    /\ din = <<>>
    /\ dout = <<>>
    /\ dres = NoReport

\* One call of _verify_slack_signature.
Verify ==
    /\ vout = "none"
    /\ vout' = IF VerifySlackSignature(vin.headers, vin.body, vin.now)
               THEN "accept" ELSE "reject"
    /\ UNCHANGED <<clock, table, hist, pc, req, loc, obs, resp, vin, din, dout, dres>>

NextVerify == Verify

SpecVerify == InitVerify /\ [][NextVerify]_vars

\* ----------------------------------------------------------- the digest
\* Python's order on the strings used as names and ids (code points:
\* "" first, upper case before lower case).
StrRank(s) ==
    CASE s = "" -> 0
      [] s = "U1" -> 1
      [] s = "U2" -> 2
      [] s = "ann" -> 3
      [] s = "bob" -> 4

\* The sort key of a group (user_id, user_name): (user_name or "", user_id),
\* compared as a tuple.
KeyLess(k1, k2) ==
    LET n1 == IF k1[2] = Absent THEN "" ELSE k1[2]
        n2 == IF k2[2] = Absent THEN "" ELSE k2[2]
    IN  \/ StrRank(n1) < StrRank(n2)
        \/ StrRank(n1) = StrRank(n2) /\ StrRank(k1[1]) < StrRank(k2[1])

\* The keys of K in sorted() order.
RECURSIVE SortedKeys(_)
SortedKeys(K) ==
    IF K = {} THEN <<>>
    ELSE LET least == CHOOSE k \in K : \A o \in K \ {k} : KeyLess(k, o)
         IN  <<least>> \o SortedKeys(K \ {least})

\* list.sort(key=ts): a stable sort, oldest first.
RECURSIVE SortByTs(_)
SortByTs(q) ==
    IF q = <<>> THEN <<>>
    ELSE LET rest == SortByTs(Tail(q))
             x == Head(q)
             before == SelectSeq(rest, LAMBDA r : r.ts < x.ts)
             after == SelectSeq(rest, LAMBDA r : r.ts >= x.ts)
         IN  before \o <<x>> \o after

\* A block of the digest message: its type and, for a user's section, the
\* group key, the rows in the order shown and the bullet texts.
Block(type, uid, uname, rows) ==
    [type |-> type, uid |-> uid, uname |-> uname, rows |-> rows,
     text |-> [i \in 1..Len(rows) |-> rows[i].message]]

\* _format_blocks: the "no submissions" notice for no items; else a
\* header, a divider and one section per (user_id, user_name) pair, the
\* pairs in sorted order, each pair's items oldest first.
FormatBlocks(day_label, items) ==
    IF items = <<>> THEN <<Block("notice", Absent, Absent, <<>>)>>
    ELSE LET keys == {<<items[i].user_id, items[i].user_name>> : i \in 1..Len(items)}
             by_user(k) ==
                 SortByTs(SelectSeq(items,
                     LAMBDA it : <<it.user_id, it.user_name>> = k))
             order == SortedKeys(keys)
         IN  <<Block("header", Absent, Absent, <<>>),
               Block("divider", Absent, Absent, <<>>)>>
             \o [i \in 1..Len(order) |->
                   Block("section", order[i][1], order[i][2], by_user(order[i]))]

\* Items as the store can hold them: user_name is a name or missing.
DigestItems ==
    [user_id : Users, ts : {0, 1}, message : Messages,
     user_name : {Absent, "ann", "bob"}]

\* Scan results: up to MaxItems items with distinct keys, in any order.
DigestInputs ==
    UNION {
      {q \in [1..n -> DigestItems] :
          \A i, j \in 1..n :
              i # j => ~(q[i].user_id = q[j].user_id /\ q[i].ts = q[j].ts)} :
      n \in 0..MaxItems}

InitDigest ==
    /\ clock = 0
    /\ table = {}
    /\ hist = <<>>
    /\ pc = [p \in Procs |-> "idle"]
    /\ req = [p \in Procs |-> NoEvent]
    /\ loc = [p \in Procs |-> NoLocals]
    /\ obs = [p \in Procs |-> NoObserved]
    /\ resp = [p \in Procs |-> NoResult]
    /\ vin = <<>>
    /\ vout = "none"
    /\ din \in DigestInputs
    /\ dout = <<>>
    /\ dres = NoReport

\* One call of _format_blocks.
Format ==
    /\ dout = <<>>
    /\ dout' = FormatBlocks("day", din)
    /\ UNCHANGED <<clock, table, hist, pc, req, loc, obs, resp, vin, vout, din, dres>>

NextDigest == Format

SpecDigest == InitDigest /\ [][NextDigest]_vars

\* --------------------------------------------------- the digest handler
\* What requests.post to chat.postMessage can meet: Slack answers ok,
\* answers with an error, answers JSON without an ok member, answers with
\* a body that is no JSON, the call times out, the connection fails.
PostAnswers ==
    {"ok", "not_ok", "no_ok_member", "not_json", "timeout", "connection_error"}

\* _post_blocks: one requests.post; the parsed answer, or the exception
\* that requests.post or resp.json() raises (nothing catches it).
PostBlocks(blocks, answer) ==
    CASE answer = "ok" -> [exc |-> "", has_ok |-> TRUE, ok |-> TRUE]
      [] answer = "not_ok" -> [exc |-> "", has_ok |-> TRUE, ok |-> FALSE]
      [] answer = "no_ok_member" -> [exc |-> "", has_ok |-> FALSE, ok |-> FALSE]
      [] answer = "not_json" -> [exc |-> "JSONDecodeError", has_ok |-> FALSE, ok |-> FALSE]
      [] answer = "timeout" -> [exc |-> "Timeout", has_ok |-> FALSE, ok |-> FALSE]
      [] answer = "connection_error" -> [exc |-> "ConnectionError", has_ok |-> FALSE, ok |-> FALSE]

\* handler of summary_lambda after the fetch: format, post once, and
\* return 200 when the answer's ok is true, 500 otherwise; an exception of
\* _post_blocks leaves the handler.
SummaryHandler(items, answer) ==
    LET blocks == FormatBlocks("day", items)
        res == PostBlocks(blocks, answer)
        ok == IF res.has_ok THEN res.ok ELSE FALSE
    IN  IF res.exc # ""
        THEN Report(answer, 1, 0, FALSE, 0, res.exc)
        ELSE Report(answer, 1, IF ok THEN 200 ELSE 500, ok, Len(items), "")

InitSummary ==
    /\ clock = 0
    /\ table = {}
    /\ hist = <<>>
    /\ pc = [p \in Procs |-> "idle"]
    /\ req = [p \in Procs |-> NoEvent]
    /\ loc = [p \in Procs |-> NoLocals]
    /\ obs = [p \in Procs |-> NoObserved]
    /\ resp = [p \in Procs |-> NoResult]
    /\ vin = <<>>
    /\ vout = "none"
    /\ din \in DigestInputs
    /\ dout = <<>>
    /\ dres = NoReport

\* One invocation of the digest handler on the fetched items.
Summarize ==
    /\ dres = NoReport
    /\ \E answer \in PostAnswers :
          /\ dout' = FormatBlocks("day", din)
          /\ dres' = SummaryHandler(din, answer)
    /\ UNCHANGED <<clock, table, hist, pc, req, loc, obs, resp, vin, vout, din>>

NextSummary == Summarize

SpecSummary == InitSummary /\ [][NextSummary]_vars


\* ================================================================ claims
\* Vocabulary of the claims, in terms of the request an invocation holds.

\* The invocation holds a request.
Busy(p) == pc[p] # "idle"

\* The form fields of the delivered body.
FormOf(p) == ParseQs(RawBody(req[p]))

\* The request passed the signature check made when it arrived.
Verified(p) ==
    VerifySlackSignature(req[p].headers, RawBody(req[p]), obs[p].at)

\* The request cannot be authentic: a header is missing or empty, the
\* timestamp is no number or lies more than the window away from the time
\* of the check, or the signature is not the HMAC of the delivered body
\* under the signing secret.
Unauthentic(p) ==
    LET ts == Hdr(req[p].headers, TsName)
        sig == Hdr(req[p].headers, SigName)
    IN  \/ ts.kind \in {"none", "empty"}
        \/ sig.kind \in {"none", "empty"}
        \/ ts.kind = "word"
        \/ /\ ts.kind \in {"int", "padint"}
           /\ Abs(obs[p].at - 2 * ts.n) > 2 * ReplayWindow
        \/ sig # Mac(SLACK_SIGNING_SECRET, ts, RawBody(req[p]))

\* The text field is empty after trimming: absent, empty or blanks only.
EmptyText(p) == FormOf(p).text \in {Absent, "", "  "}

\* C1: a request whose signature verification fails is answered 401 at
\* once: the form is not parsed, no core handler is called, no put_item and
\* no views.open call is made for it.
C1_RejectBeforeAnything ==
    \A p \in Procs :
        Busy(p) /\ Unauthentic(p) =>
            /\ pc[p] = "done"
            /\ resp[p].status = 401
            /\ resp[p].exc = ""
            /\ ~obs[p].parsed
            /\ obs[p].calls = <<>>
            /\ obs[p].puts = 0
            /\ obs[p].chat = 0

\* C1 witness: a request signed over another body than the one delivered
\* has been answered 401.
C1_Witness ==
    \E p \in Procs :
        /\ pc[p] = "done"
        /\ resp[p].status = 401
        /\ Hdr(req[p].headers, SigName).kind = "mac"
        /\ Hdr(req[p].headers, SigName).key = SLACK_SIGNING_SECRET
        /\ Hdr(req[p].headers, SigName).ts = Hdr(req[p].headers, TsName)
        /\ Hdr(req[p].headers, SigName).body # RawBody(req[p])
        /\ Abs(obs[p].at - 2 * Hdr(req[p].headers, TsName).n) <= 2 * ReplayWindow

\* C2: a timestamp more than 300 seconds from the current time, in the
\* past or in the future, is rejected whatever the signature, the correct
\* HMAC included; a timestamp within 300 seconds with the correct HMAC is
\* accepted.
C2_ReplayWindow ==
    vout # "none" =>
        LET ts == Hdr(vin.headers, TsName)
            sig == Hdr(vin.headers, SigName)
            numeric == ts.kind \in {"int", "padint"}
            correct == sig = Mac(SLACK_SIGNING_SECRET, ts, vin.body)
        IN  /\ numeric /\ vin.now - 2 * ts.n > 2 * ReplayWindow => vout = "reject"
            /\ numeric /\ 2 * ts.n - vin.now > 2 * ReplayWindow => vout = "reject"
            /\ numeric /\ correct /\ Abs(vin.now - 2 * ts.n) <= 2 * ReplayWindow
                   => vout = "accept"

\* C2 witness: a correctly signed request stamped more than 300 seconds
\* ahead of the clock has been rejected.
C2_Witness ==
    /\ vout = "reject"
    /\ Hdr(vin.headers, TsName).kind = "int"
    /\ 2 * Hdr(vin.headers, TsName).n - vin.now > 2 * ReplayWindow
    /\ Hdr(vin.headers, SigName)
         = Mac(SLACK_SIGNING_SECRET, Hdr(vin.headers, TsName), vin.body)

\* C3: a save-entry request with no text after trimming makes no put_item
\* call; one with text makes exactly one, of the trimmed text, stamped
\* with the UTC second at which it was made.
C3_SaveWritesOnce ==
    \A p \in Procs :
        Busy(p) /\ obs[p].calls = <<"standup">> =>
            IF EmptyText(p)
            THEN pc[p] = "done" /\ obs[p].puts = 0
            ELSE /\ pc[p] = "save" => obs[p].puts = 0
                 /\ pc[p] \in {"query", "done"} =>
                        /\ obs[p].puts = 1
                        /\ hist # <<>>
                        /\ hist[Len(hist)] =
                              StandupItem(FormOf(p).user_id, Strip(FormOf(p).text),
                                          FormOf(p).user_name, loc[p].ts_saved)
                        /\ hist[Len(hist)] \in table
                        /\ NowIso(obs[p].at) <= loc[p].ts_saved
                        /\ loc[p].ts_saved <= NowIso(clock)

\* C3 witness: a request with padded text has been answered after one
\* put_item call.
C3_Witness ==
    \E p \in Procs :
        /\ pc[p] = "done"
        /\ obs[p].calls = <<"standup">>
        /\ FormOf(p).text = " b "
        /\ obs[p].puts = 1
        /\ resp[p].status = 200

\* The put_item calls made before the last one for the same user.
EarlierSaves ==
    {i \in 1..(Len(hist) - 1) : hist[i].user_id = hist[Len(hist)].user_id}

\* The save before the last one by the same user.
FirstSave ==
    hist[CHOOSE i \in EarlierSaves : \A j \in EarlierSaves : j <= i]

\* C4: when a save request is answered and the same user had saved before
\* (that request had completed), get_latest_n(user, 2) is the new entry
\* followed by the earlier save, and the answer shows the new message and
\* the earlier one as "Previous"; the answer to a user's first save shows
\* no "Previous".  Requests are served one at a time, so the last put_item
\* is the answered request's own.
C4_PreviousIsFirstSave ==
    \A p \in Serial :
        pc[p] = "done" /\ obs[p].puts = 1 =>
            LET mine == hist[Len(hist)]
                latest_two == GetLatestN(table, mine.user_id, 2)
            IN  /\ resp[p].msg = mine.message
                /\ IF EarlierSaves = {}
                   THEN resp[p].prev = NoPrev
                   ELSE /\ Len(latest_two) = 2
                        /\ latest_two[1] = mine
                        /\ latest_two[2] = FirstSave
                        /\ resp[p].prev = [ts |-> FirstSave.ts,
                                           message |-> FirstSave.message]

\* C4, for saves made in different clock seconds (holds; not the claim).
C4_DistinctSeconds ==
    \A p \in Serial :
        pc[p] = "done" /\ obs[p].puts = 1 =>
            LET mine == hist[Len(hist)]
                latest_two == GetLatestN(table, mine.user_id, 2)
            IN  /\ resp[p].msg = mine.message
                /\ IF EarlierSaves = {}
                   THEN resp[p].prev = NoPrev
                   ELSE FirstSave.ts # mine.ts =>
                        /\ Len(latest_two) = 2
                        /\ latest_two[1] = mine
                        /\ latest_two[2] = FirstSave
                        /\ resp[p].prev = [ts |-> FirstSave.ts,
                                           message |-> FirstSave.message]

\* C5: a verified request sent to the interactive flow with a payload that
\* is not well-formed JSON is answered with status 500; no exception
\* leaves the handler and nothing is written.
C5_MalformedPayloadIs500 ==
    \A p \in Procs :
        /\ Busy(p)
        /\ obs[p].calls = <<"interactive">>
        /\ FormOf(p).payload.json = "malformed"
        => /\ pc[p] = "done"
           /\ resp[p].status = 500
           /\ resp[p].exc = ""
           /\ obs[p].puts = 0

\* C6: a verified interactive request whose payload field is absent or
\* empty, or whose payload is an object of a type other than
\* view_submission, is answered 200 with an empty body, without a put_item
\* or views.open call.
C6_OtherInteractiveIsEmptyAck ==
    \A p \in Procs :
        /\ Busy(p)
        /\ obs[p].calls = <<"interactive">>
        /\ LET payload == RawBody(req[p]).of.payload
           IN  \/ payload.json \in {"absent", "blank"}
               \/ payload.json = "object" /\ payload.type # "view_submission"
        => /\ pc[p] = "done"
           /\ resp[p] = Response(200, FALSE, "empty")
           /\ obs[p].puts = 0
           /\ obs[p].chat = 0

\* C6 witness: a block_actions payload has been acknowledged.
C6_Witness ==
    \E p \in Procs :
        /\ pc[p] = "done"
        /\ obs[p].calls = <<"interactive">>
        /\ FormOf(p).payload.json = "object"
        /\ FormOf(p).payload.type = "block_actions"
        /\ resp[p].status = 200
        /\ resp[p].kind = "empty"

\* C7: a save-entry request with no text makes one views.open call and is
\* answered 200 whatever the call does: with an empty body when the dialog
\* opened, with the fallback text when Slack refused, the call timed out
\* or raised; never an error status, never an exception.
C7_DialogFailureIs200 ==
    \A p \in Procs :
        Busy(p) /\ obs[p].calls = <<"standup">> /\ EmptyText(p) =>
            /\ pc[p] = "done"
            /\ obs[p].chat = 1
            /\ obs[p].modal \in ModalOutcomes
            /\ resp[p].status = 200
            /\ resp[p].exc = ""
            /\ resp[p].kind = IF obs[p].modal = "ok" THEN "empty" ELSE "fallback"

\* C7 witness: the views.open call timed out and the request was answered
\* 200 with the fallback text.
C7_Witness ==
    \E p \in Procs :
        /\ pc[p] = "done"
        /\ obs[p].calls = <<"standup">>
        /\ EmptyText(p)
        /\ obs[p].modal = "timeout"
        /\ resp[p].status = 200
        /\ resp[p].kind = "fallback"

\* C8: a verified request goes to at most one flow, chosen by the path
\* when it ends with a route (whatever fields the form has) and by the
\* form only otherwise: command first, then payload, else none.
C8_PathBeforeContent ==
    \A p \in Procs :
        Busy(p) /\ Verified(p) =>
            LET raw_path == RawPath(req[p])
                form == FormOf(p)
            IN  /\ Len(obs[p].calls) <= 1
                /\ obs[p].calls =
                      IF EndsWith(raw_path, "/standup") THEN <<"standup">>
                      ELSE IF EndsWith(raw_path, "/interactive") THEN <<"interactive">>
                      ELSE IF form.command # Absent THEN <<"standup">>
                      ELSE IF form.payload.json # "absent" THEN <<"interactive">>
                      ELSE <<>>

\* C8 witness: a request on the save-entry route whose form has a payload
\* field went to the save-entry flow only.
C8_Witness ==
    \E p \in Procs :
        /\ Busy(p)
        /\ Verified(p)
        /\ EndsWith(RawPath(req[p]), "/standup")
        /\ FormOf(p).payload.json = "object"
        /\ FormOf(p).command = Absent
        /\ obs[p].calls = <<"standup">>

\* The request matches no route and its form has neither field.
Unrouted(p) ==
    /\ ~EndsWith(RawPath(req[p]), "/standup")
    /\ ~EndsWith(RawPath(req[p]), "/interactive")
    /\ FormOf(p).command = Absent
    /\ FormOf(p).payload.json = "absent"

\* C9 as claimed: such a request is answered 404 with an empty body.
C9_NotFoundEmptyBody ==
    \A p \in Procs :
        Busy(p) /\ Verified(p) /\ Unrouted(p) =>
            /\ pc[p] = "done"
            /\ resp[p].status = 404
            /\ resp[p].kind = "empty"
            /\ obs[p].calls = <<>>
            /\ obs[p].puts = 0
            /\ obs[p].chat = 0

\* C9, amended: a verified request that matches no route and whose form
\* has neither a command nor a payload field is answered 404 with the body
\* "not found"; no handler is called, nothing is written, no chat call is
\* made.
C9_NotFound ==
    \A p \in Procs :
        Busy(p) /\ Verified(p) /\ Unrouted(p) =>
            /\ pc[p] = "done"
            /\ resp[p] = Response(404, FALSE, "not found")
            /\ obs[p].calls = <<>>
            /\ obs[p].puts = 0
            /\ obs[p].chat = 0

\* C9 witness: a verified request with text but no command field, on a
\* path that ends with no route, has been answered 404.
C9_Witness ==
    \E p \in Procs :
        /\ pc[p] = "done"
        /\ Verified(p)
        /\ Unrouted(p)
        /\ FormOf(p).text = "a"
        /\ RawPath(req[p]) = "/standup/x"
        /\ resp[p].status = 404

\* The sections of the rendered digest.
Sections == SelectSeq(dout, LAMBDA b : b.type = "section")

\* C10: whatever the order of the items, each user's messages are in one
\* section, oldest first, and the sections are ordered by display name,
\* then user id; also when a user's entries differ in user_name.
C10_OneSectionPerUser ==
    dout # <<>> /\ din # <<>> =>
        LET secs == Sections
            items == {din[i] : i \in 1..Len(din)}
        IN  /\ \A u \in {it.user_id : it \in items} :
                 \E i \in 1..Len(secs) :
                     /\ secs[i].uid = u
                     /\ \A j \in 1..Len(secs) : secs[j].uid = u => j = i
                     /\ {secs[i].rows[k] : k \in 1..Len(secs[i].rows)}
                          = {it \in items : it.user_id = u}
                     /\ Len(secs[i].rows)
                          = Cardinality({it \in items : it.user_id = u})
                     /\ \A k \in 1..(Len(secs[i].rows) - 1) :
                            secs[i].rows[k].ts < secs[i].rows[k + 1].ts
            /\ \A i \in 1..(Len(secs) - 1) :
                 KeyLess(<<secs[i].uid, secs[i].uname>>,
                         <<secs[i + 1].uid, secs[i + 1].uname>>)

\* C10 for the groups the code forms (holds; not the claim): one section
\* per (user_id, user_name) pair.
C10_OneSectionPerPair ==
    dout # <<>> /\ din # <<>> =>
        LET secs == Sections
            items == {din[i] : i \in 1..Len(din)}
        IN  /\ \A it \in items :
                 \E i \in 1..Len(secs) :
                     /\ secs[i].uid = it.user_id /\ secs[i].uname = it.user_name
                     /\ \A j \in 1..Len(secs) :
                            secs[j].uid = it.user_id /\ secs[j].uname = it.user_name
                                => j = i
                     /\ {secs[i].rows[k] : k \in 1..Len(secs[i].rows)}
                          = {o \in items : o.user_id = it.user_id
                                           /\ o.user_name = it.user_name}
                     /\ \A k \in 1..(Len(secs[i].rows) - 1) :
                            secs[i].rows[k].ts < secs[i].rows[k + 1].ts
            /\ \A i \in 1..(Len(secs) - 1) :
                 KeyLess(<<secs[i].uid, secs[i].uname>>,
                         <<secs[i + 1].uid, secs[i + 1].uname>>)

\* C11: an invocation of the digest handler makes exactly one post
\* attempt, and whenever delivery fails (Slack answers ok=false, or the
\* post call itself fails) it ends by returning statusCode 500.
C11_FailedDeliveryIs500 ==
    dres # NoReport =>
        /\ dres.posts = 1
        /\ dres.answer # "ok" => dres.statusCode = 500 /\ dres.exc = ""

\* C11 for the answers Slack gives as JSON (holds; not the claim): one
\* post, 200 for ok=true, 500 for ok=false or no ok member.
C11_AnsweredDelivery ==
    dres # NoReport =>
        /\ dres.posts = 1
        /\ dres.answer = "ok" => dres.statusCode = 200
        /\ dres.answer \in {"not_ok", "no_ok_member"} =>
               dres.statusCode = 500 /\ dres.exc = ""

\* The first put_item call made under each key (user_id, ts).
FirstWrites ==
    {i \in 1..Len(hist) :
        \A j \in 1..(i - 1) :
            ~(hist[j].user_id = hist[i].user_id /\ hist[j].ts = hist[i].ts)}

\* C12: every entry ever stored under a key (user_id, ts) is still in the
\* table with the message and user_name it was first written with,
\* whatever requests followed, a second save by the same user within the
\* same second included.
C12_EntriesImmutable ==
    \A i \in FirstWrites : hist[i] \in table

\* C12 for keys written once (holds; not the claim): an entry whose key no
\* later put_item used is in the table as written.
C12_UnlessSameKey ==
    \A i \in 1..Len(hist) :
        (\A j \in (i + 1)..Len(hist) :
            ~(hist[j].user_id = hist[i].user_id /\ hist[j].ts = hist[i].ts))
        => hist[i] \in table

\* C13: however the steps of save requests of one user interleave, the
\* entry an answer shows as "Previous" is not the entry its own request
\* saved, and is an entry of that user written before the request's save.
C13_PreviousIsNotOwn ==
    \A p \in Procs :
        pc[p] = "done" /\ obs[p].puts = 1 /\ resp[p].prev # NoPrev =>
            /\ ~(resp[p].prev.ts = loc[p].ts_saved
                 /\ resp[p].prev.message = loc[p].message)
            /\ \E i, j \in 1..Len(hist) :
                 /\ i < j
                 /\ hist[j] = StandupItem(loc[p].user_id, loc[p].message,
                                          loc[p].user_name, loc[p].ts_saved)
                 /\ hist[i].user_id = loc[p].user_id
                 /\ hist[i].ts = resp[p].prev.ts
                 /\ hist[i].message = resp[p].prev.message

\* C13 for requests served one at a time (holds under Spec; not the
\* claim): same statement, checked without overlap.
C13_SerialPreviousIsNotOwn ==
    \A p \in Serial :
        pc[p] = "done" /\ obs[p].puts = 1 /\ resp[p].prev # NoPrev =>
            ~(resp[p].prev.ts = loc[p].ts_saved
              /\ resp[p].prev.message = loc[p].message)

====
